---- MODULE Spec2Model ----
(***************************************************************************)
(* Model of src/main.py: the CryptoAnalyzer of the RSI alert bot.          *)
(*                                                                         *)
(* Spec     the process: main(), the scheduled analyze_all_cryptos cycle,  *)
(*          get_ohlcv_data with its retry loop, analyze_crypto, the trend  *)
(*          summary and flush_messages / send_telegram_message.            *)
(* SpecRSI  calculate_rsi as a pure function over bounded inputs.          *)
(*                                                                         *)
(* Numbers.  Prices are positive integers.  An RSI value is a rational     *)
(* [num, den] in lowest terms, or NaN, written [num |-> 0, den |-> 0]:     *)
(* float('nan') is what 0.0/0.0 gives in numpy/pandas, and every           *)
(* comparison with it is false.  Rounding of binary floats is not          *)
(* modelled.  Time is counted in ticks of 1/JitterSteps second.            *)
(***************************************************************************)
EXTENDS Integers, Sequences, FiniteSets, TLC

(* ------------------------------ bounds --------------------------------- *)
NSymbols == 2       \* longest configured symbol list explored
MaxCycles == 2      \* scheduled cycles explored
MaxPrice == 3       \* SpecRSI: prices range over 1..MaxPrice
MaxTs == 2          \* candle timestamps range over 1..MaxTs
JitterSteps == 2    \* ticks per second: random.random() is k/JitterSteps
MaxLen == 4         \* SpecRSI: longest price series
MaxPeriod == 3      \* SpecRSI: largest period

(* ------------------------- program constants --------------------------- *)
RSIPeriod == 14       \* calculate_rsi(self, prices, period=14)
Retries == 3          \* get_ohlcv_data(..., retries=3)
MinCandles == 50      \* len(df) < 50
BuyThreshold == 30    \* rsi <= 30
SellThreshold == 70   \* rsi >= 70
OversoldAvg == 35     \* avg_rsi <= 35
OverboughtAvg == 65   \* avg_rsi >= 65
FallbackRSI == 50     \* return 50


(* ----------------------------- arithmetic ------------------------------ *)
Abs(x) == IF x < 0 THEN -x ELSE x

RECURSIVE GCD(_, _)
GCD(a, b) == IF b = 0 THEN Abs(a) ELSE GCD(b, a % b)

RECURSIVE Pow2(_)
Pow2(n) == IF n = 0 THEN 1 ELSE 2 * Pow2(n - 1)

NaN == [num |-> 0, den |-> 0]
IsNaN(r) == r.den = 0

\* the float n/d, in lowest terms (d > 0)
Rat(n, d) == LET g == GCD(n, d) IN [num |-> n \div g, den |-> d \div g]

\* float comparisons: any comparison with NaN is False
Leq(r, k) == r.den > 0 /\ r.num <= k * r.den
Geq(r, k) == r.den > 0 /\ r.num >= k * r.den

\* float addition: NaN is absorbing
Add(r, s) ==
    IF IsNaN(r) \/ IsNaN(s) THEN NaN
    ELSE Rat(r.num * s.den + s.num * r.den, r.den * s.den)

RECURSIVE SumSeq(_)
SumSeq(s) == IF s = <<>> THEN Rat(0, 1) ELSE Add(s[1], SumSeq(Tail(s)))

\* np.mean(rsi_values), rsi_values non-empty
Mean(s) ==
    LET t == SumSeq(s)
    IN  IF IsNaN(t) THEN NaN ELSE Rat(t.num, t.den * Len(s))

(* ---------------------------- calculate_rsi ---------------------------- *)
\* np.diff(prices)
Diff(prices) ==
    IF Len(prices) < 2 THEN <<>>
    ELSE [i \in 1..(Len(prices) - 1) |-> prices[i + 1] - prices[i]]

\* np.where(deltas > 0, deltas, 0) and np.where(deltas < 0, -deltas, 0)
Gain(d) == IF d > 0 THEN d ELSE 0
Loss(d) == IF d < 0 THEN -d ELSE 0

\* One step of ewm(span=period).mean() (adjust=True, alpha = 2/(period+1))
\* on the gain and the loss series together.  The weighted sums
\*   sum_i (1-alpha)^(k-i) * x_i,  1-alpha = (period-1)/(period+1),
\* are kept as up/scale and down/scale.  The divisor sum_i (1-alpha)^(k-i)
\* of the mean is the same positive number for both series, so it cancels
\* in rs = roll_up / roll_down and is left out.
EwmStep(acc, d, period) ==
    LET u == (period - 1) * acc.up + (period + 1) * acc.scale * Gain(d)
        w == (period - 1) * acc.down + (period + 1) * acc.scale * Loss(d)
        s == (period + 1) * acc.scale
        g == GCD(GCD(u, w), s)
    IN  IF u = 0 /\ w = 0 THEN [up |-> 0, down |-> 0, scale |-> 1]
        ELSE [up |-> u \div g, down |-> w \div g, scale |-> s \div g]

\* the ewm state after deltas[i..], started from acc before deltas[i]
RECURSIVE Ewm(_, _, _, _)
Ewm(acc, deltas, i, period) ==
    IF acc.scale > 0 /\ i > Len(deltas) THEN acc
    ELSE Ewm(EwmStep(acc, deltas[i], period), deltas, i + 1, period)

\* rs = roll_up / roll_down ; rsi = 100 - (100 / (1 + rs)), last element.
\*   roll_down = 0 < roll_up : rs = inf, 100/(1+inf) = 0, rsi = 100
\*   roll_down = 0 = roll_up : rs = 0/0 = NaN, rsi = NaN
\*   otherwise               : rsi = 100 * up / (up + down)
RsiOf(e) ==
    IF e.down = 0
    THEN IF e.up = 0 THEN NaN ELSE Rat(100, 1)
    ELSE Rat(100 * e.up, e.up + e.down)

\* length guard off by one
calculate_rsi_short(prices, period) ==
    IF Len(prices) < period - 1 THEN Rat(FallbackRSI, 1)
    ELSE LET deltas == Diff(prices)
         IN  IF deltas = <<>> THEN Rat(FallbackRSI, 1)
             ELSE RsiOf(Ewm([up |-> 0, down |-> 0, scale |-> 1], deltas, 1, period))

calculate_rsi(prices, period) ==
    IF Len(prices) < period THEN Rat(FallbackRSI, 1)
    ELSE LET deltas == Diff(prices)
         IN  IF deltas = <<>> THEN Rat(FallbackRSI, 1)
             ELSE RsiOf(Ewm([up |-> 0, down |-> 0, scale |-> 1], deltas, 1, period))

(* ------------------------------- values -------------------------------- *)
\* CRYPTO_SYMBOLS: the configured list, a prefix of 1..NSymbols
SymbolLists == {[i \in 1..k |-> i] : k \in 0..NSymbols}

Timestamps == 1..MaxTs

\* Close series the supplier hands back: n candles, all at shape[1] but the
\* last two, which are shape[2] and shape[3].  The shapes are a constant
\* series, a rising one, a falling one and one that rises then falls.
Shapes == {<<1, 1, 1>>, <<1, 2, 3>>, <<3, 2, 1>>, <<2, 3, 1>>}
Series(n, shape) ==
    [i \in 1..n |-> IF i <= n - 2 THEN shape[1] ELSE shape[i - (n - 3)]]

\* What fetch_ohlcv + pd.DataFrame can hand back: len candles, ts the
\* timestamp of the last one.  numeric = FALSE is a frame whose close
\* column holds no numbers (np.diff raises on it).
FullFrames ==
    {[len |-> MinCandles, ts |-> t, shape |-> s, numeric |-> TRUE] :
        t \in Timestamps, s \in Shapes}
ShortFrames ==
    {[len |-> n, ts |-> 1, shape |-> <<1, 1, 1>>, numeric |-> TRUE] :
        n \in {0, RSIPeriod - 1, MinCandles - 1}}
BadFrames ==
    {[len |-> MinCandles, ts |-> t, shape |-> <<1, 1, 1>>, numeric |-> FALSE] :
        t \in Timestamps}
Frames == FullFrames \cup ShortFrames \cup BadFrames

\* df['close'].tolist()
Closes(f) == Series(f.len, f.shape)

\* calculate_rsi(prices) on the close series of the frames, computed once
FrameRSI ==
    [f \in {[len |-> g.len, shape |-> g.shape] : g \in Frames} |->
        calculate_rsi(Series(f.len, f.shape), RSIPeriod)]

\* os.getenv: each of the two variables is set (to a non-empty string) or not
Environments == [token : BOOLEAN, chat_id : BOOLEAN]

\* outcomes of requests.post in send_telegram_message
SinkOutcomes == {"ok", "http_error", "exception"}

VARIABLES
    configured,      \* which of TELEGRAM_BOT_TOKEN, TELEGRAM_CHAT_ID are set
    symbols,         \* CRYPTO_SYMBOLS
    mpc,             \* position of main()
    cycle,           \* number of analyze_all_cryptos runs started
    pc,              \* position inside analyze_all_cryptos
    idx,             \* index of the symbol of the for loop
    attempt,         \* loop variable of get_ohlcv_data
    df,              \* <<frame>> returned by get_ohlcv_data, <<>> for None
    analysis,        \* <<result>> of analyze_crypto, <<>> for None
    last_analysis,   \* self.last_analysis: symbol -> last candle timestamp
    message_buffer,  \* self.message_buffer
    signals_found,
    rsi_values,
    summary,         \* <<trend summary>> built in this cycle, <<>> if none
    wait,            \* last backoff wait, in ticks
    calls,           \* fetch_ohlcv calls made for the current symbol
    attempted,       \* symbols handed to analyze_crypto in this cycle
    sink_calls,      \* send_telegram_message calls since the cycle started
    outcomes,        \* how each loop iteration of this cycle ended
    delay,           \* ticks slept since the last fetch_ohlcv call
    rsi_in,          \* SpecRSI: <<prices, period>> given to calculate_rsi
    rsi_out          \* SpecRSI: <<result>> once calculate_rsi has returned

cycleVars == <<pc, idx, attempt, df, analysis, last_analysis, message_buffer,
               signals_found, rsi_values, summary, wait, calls, attempted,
               sink_calls, outcomes, delay>>
rsiVars == <<rsi_in, rsi_out>>
vars == <<configured, symbols, mpc, cycle, cycleVars, rsiVars>>

\* dedup check left out
IsDuplicateNever(la, symbol, ts) == FALSE

(* -------------------------- pieces of the code ------------------------- *)
\* self.last_analysis.get(symbol) == last_timestamp
IsDuplicate(la, symbol, ts) == symbol \in DOMAIN la /\ la[symbol] = ts

\* length guard taken from the RSI period instead of 50
UnusablePeriod(d) == d = <<>> \/ d[1].len < RSIPeriod

\* df is None or len(df) < 50
Unusable(d) == d = <<>> \/ d[1].len < MinCandles

\* buy threshold confused with the trend threshold
SignalOfTrendThreshold(rsi) ==
    IF Leq(rsi, OversoldAvg) THEN "COMPRA"
    ELSE IF Geq(rsi, SellThreshold) THEN "VENDA"
    ELSE "NEUTRO"

\* rsi <= 30 -> COMPRA, rsi >= 70 -> VENDA, else NEUTRO
SignalOf(rsi) ==
    IF Leq(rsi, BuyThreshold) THEN "COMPRA"
    ELSE IF Geq(rsi, SellThreshold) THEN "VENDA"
    ELSE "NEUTRO"

\* trend thresholds confused with the signal thresholds
TrendOfSignalThreshold(avg) ==
    IF Leq(avg, BuyThreshold) THEN "sobrevendido"
    ELSE IF Geq(avg, SellThreshold) THEN "sobrecomprado"
    ELSE "neutro"

\* avg_rsi <= 35 / avg_rsi >= 65 / else
TrendOf(avg) ==
    IF Leq(avg, OversoldAvg) THEN "sobrevendido"
    ELSE IF Geq(avg, OverboughtAvg) THEN "sobrecomprado"
    ELSE "neutro"

\* linear instead of exponential backoff
BackoffWaitLinear(a, jitter) == 2 * a * JitterSteps + jitter

\* wait = 2 ** attempt + random.random(), in ticks
BackoffWait(a, jitter) == Pow2(a) * JitterSteps + jitter

\* flush only when an alert was found
ShouldFlushAlertsOnly(found, values) == found # 0

\* if signals_found or rsi_values
ShouldFlush(found, values) == found # 0 \/ values # <<>>

\* the dict is replaced by one holding the new entry only
StoreOnly(la, symbol, ts) == [s \in {symbol} |-> ts]

\* the timestamp is not committed
StoreNothing(la, symbol, ts) == la

\* the dict after self.last_analysis[symbol] = last_timestamp
Store(la, symbol, ts) ==
    [s \in DOMAIN la \cup {symbol} |-> IF s = symbol THEN ts ELSE la[s]]

\* the buffer is kept for the next cycle when the delivery failed
ClearedOnSuccess(buf, outcome) == IF outcome = "ok" THEN <<>> ELSE buf

\* self.message_buffer = [] after send_telegram_message has returned
Cleared(buf, outcome) == <<>>

\* the message is put at the head of the buffer
InsertMsg(buf, msg) == <<msg>> \o buf

\* self.message_buffer.append(msg) / .append(summary)
AppendMsg(buf, msg) == Append(buf, msg)

\* the dict analyze_crypto returns
Result(symbol, f) ==
    LET prices == Closes(f)
        rsi == FrameRSI[[len |-> f.len, shape |-> f.shape]]
    IN  [symbol |-> symbol, price |-> prices[Len(prices)], rsi |-> rsi,
         signal |-> SignalOf(rsi)]

\* msg, the alert text
AlertMsg(a) ==
    [kind |-> "alert", symbol |-> a.symbol, signal |-> a.signal,
     rsi |-> a.rsi, price |-> a.price]

\* summary, the trend text
SummaryMsg(values) ==
    [kind |-> "summary", avg |-> Mean(values), trend |-> TrendOf(Mean(values))]

StartupMsg == [kind |-> "startup"]

\* the exception leaves the loop
AfterErrorAbort(i) == Len(symbols) + 1

\* except Exception in the for loop: the loop goes on with the next symbol
AfterError(i) == i + 1

\* trend block only when an alert was found
HasTrendAlertsOnly(found, values) == found # 0

\* if rsi_values: (the trend block)
HasTrend(found, values) == values # <<>>

\* guard of send_telegram_message:
\* if not TELEGRAM_BOT_TOKEN or not TELEGRAM_CHAT_ID
Missing(env) == ~env.token \/ ~env.chat_id

\* main() gives up only when both variables are absent
ConfigErrorBoth(env) == ~env.token /\ ~env.chat_id

\* guard of main(): if not TELEGRAM_BOT_TOKEN or not TELEGRAM_CHAT_ID
ConfigError(env) == ~env.token \/ ~env.chat_id

\* the job is started while an earlier run of it is still going
JobDueAnytime(m) == m \in {"loop", "job"}

\* while True: schedule.run_pending() -- the job is called from the loop of
\* main(), which is not in the loop while a call of the job is running
JobDue(m) == m = "loop"

\* logger.info on status 200, logger.error on any other status or exception
LogLevel(outcome) == IF outcome = "ok" THEN "info" ELSE "error"

\* what one requests.post leaves in the log of sink calls
Sent(text, outcome) ==
    [text |-> text, outcome |-> outcome, level |-> LogLevel(outcome)]

\* one sink call per buffered message instead of one per cycle
PostEach(log, text, outcome) ==
    IF Missing(configured) THEN log
    ELSE log \o [i \in 1..Len(text) |-> Sent(<<text[i]>>, outcome)]

\* a failed delivery is tried a second time
PostRetry(log, text, outcome) ==
    IF Missing(configured) THEN log
    ELSE IF outcome = "ok" THEN Append(log, Sent(text, outcome))
    ELSE Append(Append(log, Sent(text, outcome)), Sent(text, outcome))

\* send_telegram_message: requests.post happens only past the credentials
\* guard, once, and no exception leaves the function
Post(log, text, outcome) ==
    IF Missing(configured) THEN log
    ELSE Append(log, Sent(text, outcome))

(* -------------------------------- Init --------------------------------- *)
CycleInit ==
    /\ pc = "idle"
    /\ idx = 1
    /\ attempt = 0
    /\ df = <<>>
    /\ analysis = <<>>
    /\ last_analysis = <<>>
    /\ message_buffer = <<>>
    /\ signals_found = 0
    /\ rsi_values = <<>>
    /\ summary = <<>>
    /\ wait = 0
    /\ calls = 0
    /\ attempted = <<>>
    /\ sink_calls = <<>>
    /\ outcomes = <<>>
    /\ delay = 0

Init ==
    /\ configured \in Environments
    /\ symbols \in SymbolLists
    /\ mpc = "start"
    /\ cycle = 0
    /\ CycleInit
    /\ rsi_in = <<<<>>, 1>>
    /\ rsi_out = <<>>

(* -------------------------------- main() ------------------------------- *)
\* if not TELEGRAM_BOT_TOKEN or not TELEGRAM_CHAT_ID: return
MainConfigError ==
    /\ mpc = "start"
    /\ ConfigError(configured)
    /\ mpc' = "exited"
    /\ UNCHANGED <<configured, symbols, cycle, cycleVars, rsiVars>>

\* analyzer.send_telegram_message("Bot Iniciado"); schedule.every(15)...
MainStartup ==
    /\ mpc = "start"
    /\ ~ConfigError(configured)
    /\ \E o \in SinkOutcomes : sink_calls' = Post(sink_calls, <<StartupMsg>>, o)
    /\ mpc' = "loop"
    /\ UNCHANGED <<configured, symbols, cycle, pc, idx, attempt, df, analysis,
                   last_analysis, message_buffer, signals_found, rsi_values,
                   summary, wait, calls, attempted, outcomes, delay, rsiVars>>

\* schedule.run_pending() finds the job due and calls analyze_all_cryptos
\* in the main thread; main() is inside that call until it returns.
\* signals_found = 0 ; rsi_values = []
RunPending ==
    /\ JobDue(mpc)
    /\ cycle < MaxCycles
    /\ mpc' = "job"
    /\ cycle' = cycle + 1
    /\ pc' = "for"
    /\ idx' = 1
    /\ signals_found' = 0
    /\ rsi_values' = <<>>
    /\ summary' = <<>>
    /\ attempted' = <<>>
    /\ sink_calls' = <<>>
    /\ outcomes' = <<>>
    /\ delay' = 0
    /\ UNCHANGED <<configured, symbols, attempt, df, analysis, last_analysis,
                   message_buffer, wait, calls, rsiVars>>

(* -------------------------- analyze_all_cryptos ------------------------ *)
\* for symbol in CRYPTO_SYMBOLS: self.analyze_crypto(symbol) is entered and
\* get_ohlcv_data starts its loop; or the list is exhausted
ForNext ==
    /\ pc = "for"
    /\ IF idx <= Len(symbols)
       THEN /\ pc' = "fetch"
            /\ attempted' = Append(attempted, symbols[idx])
       ELSE /\ pc' = "trend"
            /\ UNCHANGED attempted
    /\ attempt' = 0
    /\ calls' = 0
    /\ wait' = 0
    /\ df' = <<>>
    /\ analysis' = <<>>
    /\ UNCHANGED <<configured, symbols, mpc, cycle, idx, last_analysis,
                   message_buffer, signals_found, rsi_values, summary,
                   sink_calls, outcomes, delay, rsiVars>>

\* get_ohlcv_data: fetch_ohlcv and the DataFrame succeed; return df
FetchOk ==
    /\ pc = "fetch"
    /\ \E f \in Frames : df' = <<f>>
    /\ calls' = calls + 1
    /\ delay' = 0
    /\ pc' = "analyze"
    /\ UNCHANGED <<configured, symbols, mpc, cycle, idx, attempt, analysis,
                   last_analysis, message_buffer, signals_found, rsi_values,
                   summary, wait, attempted, sink_calls, outcomes, rsiVars>>

\* get_ohlcv_data: the try block raises
FetchFail ==
    /\ pc = "fetch"
    /\ calls' = calls + 1
    /\ delay' = 0
    /\ pc' = "backoff"
    /\ UNCHANGED <<configured, symbols, mpc, cycle, idx, attempt, df, analysis,
                   last_analysis, message_buffer, signals_found, rsi_values,
                   summary, wait, attempted, sink_calls, outcomes, rsiVars>>

\* get_ohlcv_data: the except block sleeps, then the for loop either tries
\* again or runs out and the function returns None
Backoff ==
    /\ pc = "backoff"
    /\ \E j \in 0..(JitterSteps - 1) :
          /\ wait' = BackoffWait(attempt, j)
          /\ delay' = delay + BackoffWait(attempt, j)
    /\ attempt' = attempt + 1
    /\ pc' = IF attempt + 1 < Retries THEN "fetch" ELSE "analyze"
    /\ UNCHANGED <<configured, symbols, mpc, cycle, idx, df, analysis,
                   last_analysis, message_buffer, signals_found, rsi_values,
                   summary, calls, attempted, sink_calls, outcomes, rsiVars>>

\* analyze_crypto after get_ohlcv_data, and the loop body up to the sleep
AnalyzeSymbol ==
    /\ pc = "analyze"
    /\ LET symbol == symbols[idx] IN
       IF Unusable(df) \/ IsDuplicate(last_analysis, symbol, df[1].ts)
       THEN \* return None ; if not analysis: continue
            /\ analysis' = <<>>
            /\ outcomes' = Append(outcomes,
                                  IF df = <<>> THEN "failed"
                                  ELSE IF Unusable(df) THEN "short"
                                  ELSE "dedup")
            /\ idx' = idx + 1
            /\ pc' = "for"
            /\ UNCHANGED <<last_analysis, message_buffer, signals_found,
                           rsi_values>>
       ELSE IF ~df[1].numeric
       THEN \* calculate_rsi raises ; except Exception as e: logger.error
            /\ outcomes' = Append(outcomes, "raised")
            /\ idx' = AfterError(idx)
            /\ pc' = "for"
            /\ UNCHANGED <<analysis, last_analysis, message_buffer,
                           signals_found, rsi_values>>
       ELSE LET a == Result(symbol, df[1]) IN
            /\ analysis' = <<a>>
            /\ outcomes' = Append(outcomes, "analyzed")
            /\ last_analysis' = Store(last_analysis, symbol, df[1].ts)
            /\ rsi_values' = Append(rsi_values, a.rsi)
            /\ IF a.signal # "NEUTRO"
               THEN /\ message_buffer' = AppendMsg(message_buffer, AlertMsg(a))
                    /\ signals_found' = signals_found + 1
               ELSE UNCHANGED <<message_buffer, signals_found>>
            /\ pc' = "sleep"
            /\ UNCHANGED idx
    /\ UNCHANGED <<configured, symbols, mpc, cycle, attempt, df, summary, wait,
                   calls, attempted, sink_calls, delay, rsiVars>>

\* time.sleep(1)
RateLimitSleep ==
    /\ pc = "sleep"
    /\ delay' = delay + JitterSteps
    /\ idx' = idx + 1
    /\ pc' = "for"
    /\ UNCHANGED <<configured, symbols, mpc, cycle, attempt, df, analysis,
                   last_analysis, message_buffer, signals_found, rsi_values,
                   summary, wait, calls, attempted, sink_calls, outcomes,
                   rsiVars>>

\* if rsi_values: avg_rsi, trend, summary, message_buffer.append(summary)
TrendSummary ==
    /\ pc = "trend"
    /\ IF HasTrend(signals_found, rsi_values)
       THEN /\ summary' = <<SummaryMsg(rsi_values)>>
            /\ message_buffer' = AppendMsg(message_buffer, SummaryMsg(rsi_values))
       ELSE UNCHANGED <<summary, message_buffer>>
    /\ pc' = "flush"
    /\ UNCHANGED <<configured, symbols, mpc, cycle, idx, attempt, df, analysis,
                   last_analysis, signals_found, rsi_values, wait, calls,
                   attempted, sink_calls, outcomes, delay, rsiVars>>

\* if signals_found or rsi_values: self.flush_messages() ; return to main()
FlushMessages ==
    /\ pc = "flush"
    /\ IF ShouldFlush(signals_found, rsi_values) /\ message_buffer # <<>>
       THEN \E o \in SinkOutcomes :
               /\ sink_calls' = Post(sink_calls, message_buffer, o)
               /\ message_buffer' = Cleared(message_buffer, o)
       ELSE UNCHANGED <<sink_calls, message_buffer>>
    /\ pc' = "idle"
    /\ mpc' = "loop"
    /\ UNCHANGED <<configured, symbols, cycle, idx, attempt, df, analysis,
                   last_analysis, signals_found, rsi_values, summary, wait,
                   calls, attempted, outcomes, delay, rsiVars>>

Next ==
    \/ MainConfigError
    \/ MainStartup
    \/ RunPending
    \/ ForNext
    \/ FetchOk
    \/ FetchFail
    \/ Backoff
    \/ AnalyzeSymbol
    \/ RateLimitSleep
    \/ TrendSummary
    \/ FlushMessages

Spec == Init /\ [][Next]_vars

(* ------------------ calculate_rsi as a pure function ------------------- *)
Prices == 1..MaxPrice
PriceSeqs == UNION {[1..n -> Prices] : n \in 0..MaxLen}

InitRSI ==
    /\ configured = [token |-> TRUE, chat_id |-> TRUE]
    /\ symbols = <<>>
    /\ mpc = "start"
    /\ cycle = 0
    /\ CycleInit
    /\ rsi_in \in PriceSeqs \X (1..MaxPeriod)
    /\ rsi_out = <<>>

CallRSI ==
    /\ rsi_out = <<>>
    /\ rsi_out' = <<calculate_rsi(rsi_in[1], rsi_in[2])>>
    /\ UNCHANGED <<configured, symbols, mpc, cycle, cycleVars, rsi_in>>

NextRSI == CallRSI

SpecRSI == InitRSI /\ [][NextRSI]_vars

(* ------------------------------- claims -------------------------------- *)
LastOutcome == IF outcomes = <<>> THEN "none" ELSE outcomes[Len(outcomes)]
CycleEnded == pc = "idle" /\ cycle >= 1
Count(text, kind) == Cardinality({i \in DOMAIN text : text[i].kind = kind})
Between(r, lo, hi) == r.den > 0 /\ r.num > lo * r.den /\ r.num < hi * r.den
NonDecreasing(prices) ==
    \A i \in 1..(Len(prices) - 1) : prices[i] <= prices[i + 1]

\* C1: when the last candle timestamp of the series fetched for a symbol
\* equals the timestamp last_analysis holds for that symbol, the analysis
\* step skips the symbol: analyze_crypto gives None, no alert is appended
\* and no RSI value joins rsi_values.
C1_DedupSkips ==
    [][(/\ pc = "analyze"
        /\ df # <<>>
        /\ df[1].len > 0
        /\ symbols[idx] \in DOMAIN last_analysis
        /\ last_analysis[symbols[idx]] = df[1].ts)
       => (/\ analysis' = <<>>
           /\ message_buffer' = message_buffer
           /\ signals_found' = signals_found
           /\ rsi_values' = rsi_values)]_vars

\* a second cycle has just skipped a symbol whose usable frame carries the
\* timestamp an earlier cycle stored
C1_Witness ==
    /\ cycle >= 2
    /\ pc = "for"
    /\ LastOutcome = "dedup"
    /\ df # <<>>
    /\ df[1].len >= MinCandles
    /\ last_analysis[symbols[idx - 1]] = df[1].ts
    /\ analysis = <<>>

\* how far analyze_all_cryptos has got: the loop index, then the position
\* inside the iteration (or after the loop)
Rank ==
    idx * 16 +
    CASE pc = "for" -> 0
      [] pc = "fetch" -> 1 + 2 * attempt
      [] pc = "backoff" -> 2 + 2 * attempt
      [] pc = "analyze" -> 8
      [] pc = "sleep" -> 9
      [] pc = "trend" -> 10
      [] pc = "flush" -> 11
      [] OTHER -> 12

\* C2: in every cycle the symbols are handed to analyze_crypto one by one in
\* list order, each exactly once, whatever the earlier iterations ended in
\* (retrieval failed, too few candles, dedup, exception); the loop is left
\* only when every symbol has been attempted, and the cycle gets to the
\* trend/flush step: every step of a running cycle moves it forward, it is
\* never stuck, and the flush step is the only way out.
C2_Order ==
    /\ pc \in {"fetch", "backoff", "analyze", "sleep"}
          => /\ idx <= Len(symbols)
             /\ attempted = SubSeq(symbols, 1, idx)
             /\ Len(outcomes) = IF pc = "sleep" THEN idx ELSE idx - 1
    /\ pc = "for" /\ mpc = "job"
          => /\ idx <= Len(symbols) + 1
             /\ attempted = SubSeq(symbols, 1, idx - 1)
             /\ Len(outcomes) = idx - 1
    /\ (pc \in {"trend", "flush"} \/ CycleEnded)
          => /\ idx = Len(symbols) + 1
             /\ attempted = symbols
             /\ Len(outcomes) = Len(symbols)
    /\ mpc = "job"
          => pc \in {"for", "fetch", "backoff", "analyze", "sleep", "trend", "flush"}

C2_Step ==
    mpc = "job" => \/ mpc' = "job" /\ Rank' > Rank
                   \/ mpc' = "loop" /\ pc = "flush"

C2_PartialFailureTolerance == []C2_Order /\ [][C2_Step]_vars

\* the second symbol is being fetched after the first one raised
C2_Witness ==
    /\ pc = "fetch"
    /\ idx = 2
    /\ outcomes = <<"raised">>
    /\ attempted = <<symbols[1], symbols[2]>>

\* C3: a cycle calls the sink exactly when it produced an alert or an RSI
\* value, and then once; a cycle in which no symbol was analyzed (or with an
\* empty list) has no alert, no trend summary and no sink call.
C3_Gating ==
    CycleEnded =>
       /\ Len(sink_calls) = IF signals_found > 0 \/ rsi_values # <<>> THEN 1 ELSE 0
       /\ (\A i \in DOMAIN outcomes : outcomes[i] # "analyzed")
             => /\ signals_found = 0
                /\ rsi_values = <<>>
                /\ summary = <<>>
                /\ sink_calls = <<>>
                /\ message_buffer = <<>>

\* a cycle that produced an RSI value but no alert has called the sink
C3_Witness ==
    /\ CycleEnded
    /\ signals_found = 0
    /\ rsi_values # <<>>
    /\ Len(sink_calls) = 1

\* a cycle over a non-empty list in which every symbol was skipped
C3_WitnessSilent ==
    /\ CycleEnded
    /\ symbols # <<>>
    /\ sink_calls = <<>>

\* C4: get_ohlcv_data calls the supplier at most 3 times for a symbol; it
\* returns at the first success, having called once per attempt; the wait
\* after failed attempt k lies in [2^k, 2^k + 1) seconds; after the third
\* failure it returns None and the symbol is skipped.  Every step inside it
\* is a call or a wait that uses up one of the 3 attempts, so it returns.
C4_Retry ==
    /\ calls <= 3
    /\ pc = "fetch" => calls = attempt /\ attempt < 3
    /\ pc = "backoff" => calls = attempt + 1 /\ attempt < 3
    /\ pc = "analyze" /\ df # <<>> => calls = attempt + 1
    /\ pc = "analyze" /\ df = <<>> => calls = 3 /\ attempt = 3
    /\ pc \in {"fetch", "backoff", "analyze"} /\ attempt >= 1
          => /\ Pow2(attempt - 1) * JitterSteps <= wait
             /\ wait < (Pow2(attempt - 1) + 1) * JitterSteps
    /\ pc = "for" /\ LastOutcome = "failed" /\ idx > 1
          => calls = 3 /\ df = <<>> /\ analysis = <<>>

C4_Step ==
    pc \in {"fetch", "backoff"}
       => /\ calls' + attempt' = calls + attempt + 1
          /\ pc' \in {"fetch", "backoff", "analyze"}
          /\ df' # <<>> => pc = "fetch" /\ pc' = "analyze"
          /\ pc' = "analyze" /\ df' = <<>> => attempt' = 3

C4_BoundedRetry == []C4_Retry /\ [][C4_Step]_vars

\* the third attempt failed, the last wait was 4 s plus jitter, and the
\* symbol was skipped
C4_Witness ==
    /\ pc = "for"
    /\ LastOutcome = "failed"
    /\ calls = 3
    /\ wait >= 4 * JitterSteps

\* C5: when the loop is over, the alerts number at most the RSI values of
\* the cycle, and the trend summary is there exactly when there is an RSI
\* value.
C5_Counts ==
    /\ pc = "flush"
          => /\ Count(message_buffer, "alert") <= Len(rsi_values)
             /\ Count(message_buffer, "summary") = IF rsi_values # <<>> THEN 1 ELSE 0
    /\ (pc = "flush" \/ CycleEnded)
          => /\ signals_found <= Len(rsi_values)
             /\ (summary # <<>>) = (rsi_values # <<>>)
             /\ Len(rsi_values) =
                   Cardinality({i \in DOMAIN outcomes : outcomes[i] = "analyzed"})

\* fewer alerts than analyzed symbols, with a summary
C5_Witness ==
    /\ pc = "flush"
    /\ Len(rsi_values) = 2
    /\ Count(message_buffer, "alert") = 1
    /\ summary # <<>>

\* C6: the signal of an analyzed symbol is COMPRA when RSI <= 30, VENDA when
\* RSI >= 70 and NEUTRO for every RSI strictly between; the alert of the
\* symbol is appended exactly when the signal is not NEUTRO.
C6_Classification ==
    [][(pc = "analyze" /\ analysis' # <<>>)
       => LET a == analysis'[1] IN
          /\ Leq(a.rsi, 30) => a.signal = "COMPRA"
          /\ Geq(a.rsi, 70) => a.signal = "VENDA"
          /\ Between(a.rsi, 30, 70) => a.signal = "NEUTRO"
          /\ a.signal \in {"COMPRA", "VENDA", "NEUTRO"}
          /\ a.signal # "NEUTRO"
                => /\ message_buffer' = Append(message_buffer, AlertMsg(a))
                   /\ signals_found' = signals_found + 1
          /\ a.signal = "NEUTRO"
                => /\ message_buffer' = message_buffer
                   /\ signals_found' = signals_found]_vars

\* a symbol with an RSI strictly between 30 and 70 was analyzed after one
\* that raised an alert
C6_Witness ==
    /\ pc = "sleep"
    /\ analysis # <<>>
    /\ Between(analysis[1].rsi, 30, 70)
    /\ analysis[1].signal = "NEUTRO"
    /\ Count(message_buffer, "alert") = 1

\* C7: a symbol whose closes never fall (a constant series included) is
\* analyzed with RSI exactly 100, never NaN, and gets the VENDA signal.
C7_Saturation ==
    (pc = "sleep" /\ analysis # <<>> /\ NonDecreasing(Closes(df[1])))
       => /\ analysis[1].rsi = [num |-> 100, den |-> 1]
          /\ analysis[1].signal = "VENDA"

\* C8 as claimed: a series with fewer candles than the indicator needs is
\* analyzed with the neutral RSI 50 and the signal NEUTRO.
C8_DegradesTo50 ==
    (pc = "for" /\ mpc = "job" /\ df # <<>> /\ df[1].len < RSIPeriod)
       => /\ analysis # <<>>
          /\ analysis[1].rsi = [num |-> 50, den |-> 1]
          /\ analysis[1].signal = "NEUTRO"

\* C8 amended: a series of fewer than 50 candles is no error and is not
\* analyzed at all: analyze_crypto gives None without raising, the loop goes
\* on with the next symbol, and no RSI value, alert or last_analysis entry
\* comes of it.
C8_ShortSeriesSkipped ==
    [][(pc = "analyze" /\ df # <<>> /\ df[1].len < 50)
       => (/\ analysis' = <<>>
           /\ outcomes' = Append(outcomes, "short")
           /\ idx' = idx + 1
           /\ pc' = "for"
           /\ rsi_values' = rsi_values
           /\ message_buffer' = message_buffer
           /\ signals_found' = signals_found
           /\ last_analysis' = last_analysis)]_vars

\* a frame of 49 candles, enough for the RSI period, has just been skipped
C8_Witness ==
    /\ pc = "for"
    /\ LastOutcome = "short"
    /\ df # <<>>
    /\ df[1].len >= RSIPeriod
    /\ analysis = <<>>

\* C9: calculate_rsi returns exactly 50 for every series shorter than the
\* period, the empty series included.
C9_ShortSeries50 ==
    (rsi_out # <<>> /\ Len(rsi_in[1]) < rsi_in[2])
       => rsi_out[1] = [num |-> 50, den |-> 1]

\* a non-empty rising series one shorter than the period has returned 50
C9_Witness ==
    /\ rsi_out = <<[num |-> 50, den |-> 1]>>
    /\ Len(rsi_in[1]) = rsi_in[2] - 1
    /\ Len(rsi_in[1]) >= 2
    /\ rsi_in[1][1] < rsi_in[1][2]

\* C10: the trend of the summary is the verdict of the mean of the cycle's
\* RSI values: oversold when the mean is <= 35, overbought when >= 65,
\* neutral when strictly between; there is a summary whenever there is an
\* RSI value.
C10_Trend ==
    /\ (pc = "flush" \/ CycleEnded) /\ rsi_values # <<>> => summary # <<>>
    /\ summary # <<>>
          => LET m == summary[1] IN
             /\ m.avg = Mean(rsi_values)
             /\ Leq(m.avg, 35) => m.trend = "sobrevendido"
             /\ Geq(m.avg, 65) => m.trend = "sobrecomprado"
             /\ Between(m.avg, 35, 65) => m.trend = "neutro"

\* a mean between 30 and 35, from values none of which raised an alert
C10_Witness ==
    /\ pc = "flush"
    /\ summary # <<>>
    /\ Between(summary[1].avg, 30, 35)
    /\ summary[1].trend = "sobrevendido"
    /\ signals_found = 0

\* the three verdicts in turn
C10_WitnessNeutral ==
    /\ pc = "flush"
    /\ summary # <<>>
    /\ Between(summary[1].avg, 35, 65)
    /\ summary[1].trend = "neutro"

\* C11: within a cycle the sink is called at most once, and only by the
\* flush step after the loop has gone through the whole symbol list; while a
\* symbol of the cycle is still to be analyzed nothing has reached the sink,
\* and the one call carries every alert of the cycle.
C11_Batch ==
    /\ mpc = "job" => sink_calls = <<>>
    /\ CycleEnded
          => /\ Len(sink_calls) <= 1
             /\ attempted = symbols
             /\ sink_calls # <<>>
                   => Count(sink_calls[1].text, "alert") = signals_found

C11_Step ==
    (mpc = "job" /\ sink_calls' # sink_calls)
       => /\ pc = "flush"
          /\ idx = Len(symbols) + 1
          /\ attempted = symbols
          /\ Len(outcomes) = Len(symbols)
          /\ mpc' = "loop"

C11_NoPartialResults == []C11_Batch /\ [][C11_Step]_vars

\* two symbols raised an alert each and the cycle made one sink call
C11_Witness ==
    /\ CycleEnded
    /\ Len(symbols) = 2
    /\ signals_found = 2
    /\ Len(sink_calls) = 1
    /\ Len(sink_calls[1].text) = 3

\* C12: the first supplier call made for a symbol that is not the first of
\* the cycle comes after a pause of at least one second since the call
\* before it, whatever the iteration of the earlier symbol ended in.
C12_RateLimitDelay ==
    (pc = "fetch" /\ idx > 1 /\ calls = 0) => delay >= JitterSteps

DeliveryFailed == sink_calls # <<>> /\ sink_calls[Len(sink_calls)].outcome # "ok"

\* C13: a delivery that fails (status other than 200, or an exception) is
\* logged as an error and tried once only; the flush step that made it ends
\* the cycle as a successful one would (buffer cleared, dedup state kept),
\* main() is back in its loop and the next cycle can start.
C13_Contained ==
    /\ cycle >= 1 => Len(sink_calls) <= 1
    /\ \A i \in DOMAIN sink_calls :
          sink_calls[i].outcome # "ok" => sink_calls[i].level = "error"
    /\ (cycle >= 1 /\ DeliveryFailed)
          => /\ CycleEnded
             /\ mpc = "loop"
             /\ attempted = symbols
             /\ message_buffer = <<>>
             /\ cycle < MaxCycles => ENABLED RunPending

C13_Step ==
    (pc = "flush" /\ DeliveryFailed')
       => /\ Len(sink_calls') = 1
          /\ sink_calls'[1].text = message_buffer
          /\ pc' = "idle"
          /\ mpc' = "loop"
          /\ UNCHANGED <<cycle, last_analysis, signals_found, rsi_values>>

C13_SinkFailureContained == []C13_Contained /\ [][C13_Step]_vars

\* the sink raised on the only delivery of a cycle; main() is in its loop
\* with another cycle to come
C13_Witness ==
    /\ CycleEnded
    /\ cycle < MaxCycles
    /\ Len(sink_calls) = 1
    /\ sink_calls[1].outcome = "exception"
    /\ sink_calls[1].level = "error"
    /\ mpc = "loop"

\* C14: last_analysis is empty until the first cycle; it changes only in
\* the step that analyzes a symbol successfully, which sets that symbol's
\* entry to the last candle timestamp of the frame just analyzed and leaves
\* every other entry as it was; an iteration that ends in a failed
\* retrieval, a frame under 50 candles, an exception or a dedup skip leaves
\* it unchanged.
C14_Empty == cycle = 0 => last_analysis = <<>>

C14_Step ==
    /\ last_analysis' # last_analysis
          => /\ pc = "analyze"
             /\ LastOutcome' = "analyzed"
             /\ Len(outcomes') = Len(outcomes) + 1
    /\ (pc = "analyze" /\ LastOutcome' = "analyzed")
          => /\ df # <<>>
             /\ df[1].len >= 50
             /\ analysis' # <<>>
             /\ DOMAIN last_analysis' = DOMAIN last_analysis \cup {symbols[idx]}
             /\ last_analysis'[symbols[idx]] = df[1].ts
             /\ \A s \in DOMAIN last_analysis \ {symbols[idx]} :
                   last_analysis'[s] = last_analysis[s]
    /\ (pc = "analyze" /\ LastOutcome' \in {"failed", "short", "raised", "dedup"})
          => last_analysis' = last_analysis

C14_Lifecycle == []C14_Empty /\ [][C14_Step]_vars

\* in a second cycle the first symbol raised and kept the entry of the first
\* cycle, and the second symbol was analyzed and got the timestamp of its
\* frame
C14_Witness ==
    /\ cycle = 2
    /\ pc = "sleep"
    /\ idx = 2
    /\ outcomes = <<"raised", "analyzed">>
    /\ DOMAIN last_analysis = {symbols[1], symbols[2]}
    /\ last_analysis[symbols[2]] = df[1].ts
    /\ last_analysis[symbols[1]] # df[1].ts

\* position of a symbol in CRYPTO_SYMBOLS
Position(symbol) == CHOOSE k \in DOMAIN symbols : symbols[k] = symbol

\* alerts in the order of the symbol list, then the one trend summary
Ordered(text) ==
    /\ text # <<>>
    /\ text[Len(text)].kind = "summary"
    /\ \A i \in 1..(Len(text) - 1) : text[i].kind = "alert"
    /\ \A i, j \in 1..(Len(text) - 1) :
          i < j => Position(text[i].symbol) < Position(text[j].symbol)

\* C15: the message a cycle hands to the sink holds the alerts of the cycle
\* in the order of the configured symbol list and, after all of them, the
\* one trend summary of the cycle.
C15_OutputOrder ==
    /\ (cycle >= 1 /\ sink_calls # <<>>)
          => /\ Ordered(sink_calls[1].text)
             /\ sink_calls[1].text[Len(sink_calls[1].text)] = summary[1]
    /\ (pc = "flush" /\ message_buffer # <<>>) => Ordered(message_buffer)

\* the sink got the alert of the first symbol, then that of the second, then
\* the summary
C15_Witness ==
    /\ CycleEnded
    /\ sink_calls # <<>>
    /\ Len(sink_calls[1].text) = 3
    /\ sink_calls[1].text[1].kind = "alert"
    /\ sink_calls[1].text[1].symbol = symbols[1]
    /\ sink_calls[1].text[2].kind = "alert"
    /\ sink_calls[1].text[2].symbol = symbols[2]
    /\ sink_calls[1].text[3].kind = "summary"

\* C16: when the bot token or the chat id is absent, main() returns before
\* it schedules anything: no cycle is ever started, the supplier is never
\* called, the sink is never called, and the process takes no further step.
C16_Stopped ==
    (~configured.token \/ ~configured.chat_id)
       => /\ mpc \in {"start", "exited"}
          /\ cycle = 0
          /\ pc = "idle"
          /\ calls = 0
          /\ attempted = <<>>
          /\ sink_calls = <<>>
          /\ last_analysis = <<>>

C16_Step ==
    /\ mpc # "exited"
    /\ (~configured.token \/ ~configured.chat_id) => mpc' = "exited"

C16_ConfigErrorFatal == []C16_Stopped /\ [][C16_Step]_vars

\* the token is set, the chat id is not, and main() has returned
C16_Witness ==
    /\ configured.token
    /\ ~configured.chat_id
    /\ mpc = "exited"
    /\ cycle = 0
    /\ sink_calls = <<>>

\* C17: a cycle is in progress exactly while main() is inside the call of
\* the job; a new cycle starts only from the loop of main(), that is after
\* the flush step of the one before has returned, however many retries,
\* backoff waits and sleeps that one took; a cycle ends through its flush
\* step only.
C17_OneCycle ==
    /\ (pc # "idle") = (mpc = "job")
    /\ (pc = "idle" /\ cycle >= 1) => attempted = symbols

C17_Step ==
    /\ cycle' # cycle
          => /\ cycle' = cycle + 1
             /\ pc = "idle"
             /\ mpc = "loop"
             /\ pc' = "for"
             /\ mpc' = "job"
             /\ attempted' = <<>>
    /\ (pc # "idle" /\ pc' = "idle") => pc = "flush"
    /\ (pc # "idle" /\ pc' = "for") => cycle' = cycle

C17_NoOverlap == []C17_OneCycle /\ [][C17_Step]_vars

\* the second cycle is in a backoff wait for its second symbol, having
\* skipped the first as a duplicate; both entries of last_analysis were
\* written by the first cycle, which has finished
C17_Witness ==
    /\ cycle = 2
    /\ mpc = "job"
    /\ pc = "backoff"
    /\ idx = 2
    /\ attempt = 1
    /\ DOMAIN last_analysis = {symbols[1], symbols[2]}
    /\ outcomes = <<"dedup">>

\* C18: message_buffer is empty whenever no cycle is running, so at the
\* start and at the end of every cycle, whatever the delivery came to: the
\* flush step empties it.  Inside a cycle it holds what this cycle has
\* appended and nothing else, and the message the sink gets is exactly that:
\* nothing of an earlier cycle is in it.
C18_Buffer ==
    /\ pc \in {"for", "fetch", "backoff", "analyze", "sleep", "trend"}
          => /\ Count(message_buffer, "alert") = signals_found
             /\ Count(message_buffer, "summary") = 0
             /\ Len(message_buffer) = signals_found
    /\ pc = "idle" => message_buffer = <<>>
    /\ (pc = "for" /\ idx = 1) => message_buffer = <<>>
    /\ pc = "flush" => Len(message_buffer) = signals_found + Len(summary)
    /\ (CycleEnded /\ sink_calls # <<>>)
          => /\ Len(sink_calls[1].text) = signals_found + Len(summary)
             /\ Count(sink_calls[1].text, "alert") = signals_found
             /\ \A i \in DOMAIN sink_calls[1].text :
                   sink_calls[1].text[i].kind = "alert"
                      => outcomes[Position(sink_calls[1].text[i].symbol)] = "analyzed"

C18_Step ==
    pc = "flush"
       => /\ message_buffer' = <<>>
          /\ sink_calls' # sink_calls => sink_calls'[1].text = message_buffer

C18_BufferCleared == []C18_Buffer /\ [][C18_Step]_vars

\* the sink answered with an error status to a message of two alerts and a
\* summary, and the buffer is empty
C18_Witness ==
    /\ CycleEnded
    /\ Len(sink_calls) = 1
    /\ sink_calls[1].outcome = "http_error"
    /\ Count(sink_calls[1].text, "alert") = 2
    /\ message_buffer = <<>>

\* the candle the frame in df ends with is the one last_analysis holds
SameCandle ==
    /\ df # <<>>
    /\ symbols[idx] \in DOMAIN last_analysis
    /\ last_analysis[symbols[idx]] = df[1].ts

\* C19: an alert is generated for a symbol only in a step that finds a
\* candle timestamp other than the one last_analysis holds for it, and the
\* same step commits the new timestamp, before the delivery; as long as the
\* supplier goes on returning that timestamp no step generates an alert for
\* the symbol, because the entry changes only when a frame with another
\* timestamp is analyzed; the flush step leaves last_analysis alone
\* whatever the delivery comes to, so a lost alert is not generated again.
C19_Committed ==
    /\ (pc = "sleep" /\ analysis # <<>>) => SameCandle
    /\ \A i \in DOMAIN message_buffer :
          message_buffer[i].kind = "alert"
             => message_buffer[i].symbol \in DOMAIN last_analysis
    /\ (CycleEnded /\ sink_calls # <<>>)
          => \A i \in DOMAIN sink_calls[1].text :
                sink_calls[1].text[i].kind = "alert"
                   => sink_calls[1].text[i].symbol \in DOMAIN last_analysis

C19_Step ==
    /\ (pc = "analyze" /\ signals_found' # signals_found)
          => /\ ~SameCandle
             /\ last_analysis'[symbols[idx]] = df[1].ts
             /\ signals_found' = signals_found + 1
    /\ (pc = "analyze" /\ SameCandle)
          => /\ signals_found' = signals_found
             /\ message_buffer' = message_buffer
             /\ last_analysis' = last_analysis
    /\ \A s \in DOMAIN last_analysis :
          last_analysis'[s] # last_analysis[s]
             => /\ pc = "analyze"
                /\ s = symbols[idx]
                /\ df # <<>>
                /\ last_analysis'[s] = df[1].ts
    /\ pc = "flush" => last_analysis' = last_analysis

C19_AtMostOncePerCandle == []C19_Committed /\ [][C19_Step]_vars

\* in the second cycle the supplier returned, for the first symbol, a frame
\* of falling closes that ends with the candle already recorded: the symbol
\* was skipped and no alert was generated
C19_Witness ==
    /\ cycle = 2
    /\ pc = "for"
    /\ idx = 2
    /\ outcomes = <<"dedup">>
    /\ df # <<>>
    /\ df[1].numeric
    /\ SignalOf(FrameRSI[[len |-> df[1].len, shape |-> df[1].shape]]) = "COMPRA"
    /\ last_analysis[symbols[1]] = df[1].ts
    /\ signals_found = 0
    /\ message_buffer = <<>>

\* the delivery of an alert failed and the candle of the alert stays recorded
C19_WitnessLost ==
    /\ CycleEnded
    /\ DeliveryFailed
    /\ Count(sink_calls[1].text, "alert") = 1
    /\ sink_calls[1].text[1].symbol \in DOMAIN last_analysis

====
